---- MODULE Spec2Model ----
(***************************************************************************)
(* A model of semgrep's rule compiler, semgrep/rule.py (class Rule).       *)
(*                                                                         *)
(* A rule document is a Python value (dict / list / str / int / None).     *)
(* Python values are modelled as tagged tuples, so that values of          *)
(* different Python types can be compared and held in one set:             *)
(*   None -> <<"None">>       "abc" -> <<"str", "abc">>                    *)
(*   7    -> <<"int", 7>>     [..]  -> <<"list", <<...>>>>                 *)
(*   {..} -> <<"dict", << <<key, value>>, ... >> >>  (insertion order)     *)
(* A namedtuple is a tuple whose first component names its class.          *)
(***************************************************************************)
EXTENDS Integers, Sequences, FiniteSets, TLC

VARIABLES
    document,     \* the mapping the caller passes to Rule(...)
    pc,           \* "new" | "built" (the caller holds a Rule) | "failed"
    _raw,         \* Rule._raw
    _expression,  \* Rule._expression
    _globs,       \* Rule._globs
    raised,       \* the exception class the last call raised, or "none"
    called,       \* the name of the last accessor called, or "none"
    returned      \* what that accessor returned

vars == <<document, pc, _raw, _expression, _globs, raised, called, returned>>

---------------------------------------------------------------------------
(* Python values *)

PyNone == <<"None">>
PyStr(s) == <<"str", s>>
PyInt(n) == <<"int", n>>
PyList(elems) == <<"list", elems>>
PyDict(items) == <<"dict", items>>

IsNone(v) == v[1] = "None"
IsStr(v) == v[1] = "str"
IsList(v) == v[1] = "list"
IsDict(v) == v[1] = "dict"

\* bool(v), as `if pattern:` evaluates it
Truthy(v) ==
    CASE v[1] = "None" -> FALSE
      [] v[1] = "str" -> v[2] # ""
      [] v[1] = "int" -> v[2] # 0
      [] v[1] = "list" -> v[2] # <<>>
      [] v[1] = "dict" -> v[2] # <<>>
      [] OTHER -> TRUE

\* key in d
HasKey(d, key) == \E i \in 1..Len(d[2]) : d[2][i][1] = key

\* d.get(key, default)
Get(d, key, default) ==
    IF HasKey(d, key)
    THEN d[2][CHOOSE i \in 1..Len(d[2]) : d[2][i][1] = key][2]
    ELSE default

\* key.startswith("__"); the reserved annotation keys of the rule language
StartsWithDunder(key) == key \in {"__span", "__line"}

\* f"{prefix}.{pattern_id}"
DottedId(prefix, pattern_id) == prefix \o "." \o ToString(pattern_id)

\* outcome of a call: a return value or a raised exception
Return(v) == <<"return", v>>
Raise(kind) == <<"raise", kind>>
IsRaise(r) == r[1] = "raise"

---------------------------------------------------------------------------
(* semgrep_types: the operator table and the result tuples *)

\* pattern_names_for_operator(operator)
pattern_names_for_operator(operator) ==
    CASE operator = "AND" -> <<"pattern">>
      [] operator = "REGEX" -> <<"pattern-regex">>
      [] operator = "AND_ALL" -> <<"patterns">>
      [] operator = "AND_EITHER" -> <<"pattern-either">>
      [] operator = "AND_NOT" -> <<"pattern-not">>
      [] operator = "AND_INSIDE" -> <<"pattern-inside">>

\* operator_for_pattern_name(name), on the names the table knows
operator_for_pattern_name(name) ==
    CASE name = "pattern" -> "AND"
      [] name = "pattern-regex" -> "REGEX"
      [] name = "patterns" -> "AND_ALL"
      [] name = "pattern-either" -> "AND_EITHER"
      [] name = "pattern-not" -> "AND_NOT"
      [] name = "pattern-inside" -> "AND_INSIDE"

ALLOWED_GLOB_TYPES == {"include", "exclude"}

\* BooleanRuleExpression(operator, pattern_id, children, operand); span omitted
BooleanRuleExpression(operator, pattern_id, children, operand) ==
    <<"BooleanRuleExpression", operator, pattern_id, children, operand>>

NodeOperator(node) == node[2]
NodePatternId(node) == node[3]
NodeChildren(node) == node[4]
NodePatternText(node) == node[5]

\* RuleGlobs(include, exclude)
RuleGlobs(include, exclude) == <<"RuleGlobs", include, exclude>>
GlobsInclude(g) == g[2]
GlobsExclude(g) == g[3]

---------------------------------------------------------------------------
(* Rule._parse_boolean_expression *)

\* the generator's loop state: nodes yielded so far, and the local pattern_id
Loop(nodes, pattern_id) == <<"loop", nodes, pattern_id>>
LoopNodes(loop) == loop[2]
LoopPatternId(loop) == loop[3]

\* a generator that yields the later nodes first
ContinueReversed(first, rest) ==
    IF IsRaise(rest) THEN rest ELSE Loop(LoopNodes(rest) \o LoopNodes(first), LoopPatternId(rest))

\* one iteration yielded `first`, the remaining iterations yielded `rest`; an
\* exception raised by the remaining iterations ends the generator
Continue(first, rest) ==
    IF IsRaise(rest) THEN rest ELSE Loop(LoopNodes(first) \o LoopNodes(rest), LoopPatternId(rest))

RECURSIVE _parse_boolean_expression(_, _, _)

\* `yield BooleanRuleExpression(operator, None, list(sub_expression), None)` (lines 66-74)
YieldComposite(operator, sub_expression, pattern_id) ==
    IF IsRaise(sub_expression)
    THEN sub_expression
    ELSE Loop(<<BooleanRuleExpression(operator, PyNone, PyList(sub_expression[2]), PyNone)>>,
              pattern_id)

\* a leaf that is given an empty list of children instead of None
YieldLeafWithChildren(operator, pattern_text, pattern_id, prefix) ==
    Loop(<<BooleanRuleExpression(operator, PyStr(DottedId(prefix, pattern_id)),
                                 PyList(<<>>), pattern_text)>>,
         pattern_id + 1)

\* the yield of a leaf, and `pattern_id += 1` (lines 76-83)
YieldLeaf(operator, pattern_text, pattern_id, prefix) ==
    Loop(<<BooleanRuleExpression(operator, PyStr(DottedId(prefix, pattern_id)),
                                 PyNone, pattern_text)>>,
         pattern_id + 1)

\* one key/value pair of a list element (lines 61-87)
ParseItem(boolean_operator, pattern_text, pattern_id, prefix) ==
    IF StartsWithDunder(boolean_operator)
    THEN Loop(<<>>, pattern_id)
    ELSE IF IsList(pattern_text)
    THEN YieldComposite(operator_for_pattern_name(boolean_operator),
                        _parse_boolean_expression(pattern_text, 0,
                                                  DottedId(prefix, pattern_id)),
                        pattern_id)
    ELSE IF IsStr(pattern_text)
    THEN YieldLeaf(operator_for_pattern_name(boolean_operator), pattern_text,
                   pattern_id, prefix)
    ELSE Raise("InvalidRuleSchema")

\* for boolean_operator, pattern_text in pattern.items(), from the i-th item on
RECURSIVE ParseItems(_, _, _, _)

\* the i-th item gave `first`: its exception propagates, else the loop goes on
\* with the pattern_id it left
ParseItemsAfter(first, items, i, prefix) ==
    IF IsRaise(first)
    THEN first
    ELSE Continue(first, ParseItems(items, i + 1, LoopPatternId(first), prefix))

ParseItems(items, i, pattern_id, prefix) ==
    IF i > Len(items)
    THEN Loop(<<>>, pattern_id)
    ELSE ParseItemsAfter(ParseItem(items[i][1], items[i][2], pattern_id, prefix),
                         items, i, prefix)

\* one element of rule_patterns (lines 56-87)
ParsePattern(pattern, pattern_id, prefix) ==
    IF ~IsDict(pattern)
    THEN Raise("InvalidRuleSchema")
    ELSE ParseItems(pattern[2], 1, pattern_id, prefix)

\* for pattern in rule_patterns, from the i-th element on (line 55)
RECURSIVE ParsePatterns(_, _, _, _)

\* the i-th element gave `first`: its exception propagates, else the loop goes on
\* with the pattern_id it left
ParsePatternsAfter(first, rule_patterns, i, prefix) ==
    IF IsRaise(first)
    THEN first
    ELSE Continue(first, ParsePatterns(rule_patterns, i + 1, LoopPatternId(first), prefix))

ParsePatterns(rule_patterns, i, pattern_id, prefix) ==
    IF i > Len(rule_patterns)
    THEN Loop(<<>>, pattern_id)
    ELSE ParsePatternsAfter(ParsePattern(rule_patterns[i], pattern_id, prefix),
                            rule_patterns, i, prefix)

\* the generator drained: list(...) of what it yields, or what it raised
Drain(loop) == IF IsRaise(loop) THEN loop ELSE Return(LoopNodes(loop))

\* list(self._parse_boolean_expression(rule_patterns, parent, pattern_id, prefix))
_parse_boolean_expression(rule_patterns, pattern_id, prefix) ==
    IF ~IsList(rule_patterns)
    THEN Raise("InvalidRuleSchema")
    ELSE Drain(ParsePatterns(rule_patterns[2], 1, pattern_id, prefix))

---------------------------------------------------------------------------
(* Rule._build_boolean_expression *)

\* the value of the first accepted key name of `operator` that is truthy, or None
FirstTruthy(rule_raw, operator) ==
    LET names == pattern_names_for_operator(operator)
        hits == {i \in 1..Len(names) : Truthy(Get(rule_raw, names[i], PyNone))}
    IN  IF hits = {}
        THEN PyNone
        ELSE Get(rule_raw, names[CHOOSE i \in hits : \A j \in hits : i <= j], PyNone)

\* rule_raw["id"]
Subscript(d, key) == IF HasKey(d, key) THEN Return(Get(d, key, PyNone)) ELSE Raise("KeyError")

\* BooleanRuleExpression(operator, rule_raw["id"], None, rule_raw[pattern_name])
Leaf(operator, rule_id, operand) ==
    IF IsRaise(rule_id)
    THEN rule_id
    ELSE Return(BooleanRuleExpression(operator, rule_id[2], PyNone, operand))

\* a single pattern that is given the dotted id of a list's first leaf
SinglePatternDottedId(rule_raw, operator) ==
    Leaf(operator, Return(PyStr(DottedId("", 0))), FirstTruthy(rule_raw, operator))

SinglePattern(rule_raw, operator) ==
    Leaf(operator, Subscript(rule_raw, "id"), FirstTruthy(rule_raw, operator))

\* BooleanRuleExpression(operator, None, list(...), None)
Composite(operator, children) ==
    IF IsRaise(children)
    THEN children
    ELSE Return(BooleanRuleExpression(operator, PyNone, PyList(children[2]), PyNone))

CompositePattern(rule_raw, operator) ==
    Composite(operator, _parse_boolean_expression(FirstTruthy(rule_raw, operator), 0, ""))

\* a dispatch that tries the list families before the single-pattern families
ListFamiliesFirst(rule_raw) ==
    IF Truthy(FirstTruthy(rule_raw, "AND_ALL"))
    THEN CompositePattern(rule_raw, "AND_ALL")
    ELSE IF Truthy(FirstTruthy(rule_raw, "AND_EITHER"))
    THEN CompositePattern(rule_raw, "AND_EITHER")
    ELSE IF Truthy(FirstTruthy(rule_raw, "AND"))
    THEN SinglePattern(rule_raw, "AND")
    ELSE IF Truthy(FirstTruthy(rule_raw, "REGEX"))
    THEN SinglePattern(rule_raw, "REGEX")
    ELSE Raise("InvalidRuleSchema")

\* the four families are tried in this order; the first truthy one returns
_build_boolean_expression(rule_raw) ==
    IF Truthy(FirstTruthy(rule_raw, "AND"))
    THEN SinglePattern(rule_raw, "AND")
    ELSE IF Truthy(FirstTruthy(rule_raw, "REGEX"))
    THEN SinglePattern(rule_raw, "REGEX")
    ELSE IF Truthy(FirstTruthy(rule_raw, "AND_ALL"))
    THEN CompositePattern(rule_raw, "AND_ALL")
    ELSE IF Truthy(FirstTruthy(rule_raw, "AND_EITHER"))
    THEN CompositePattern(rule_raw, "AND_EITHER")
    ELSE Raise("InvalidRuleSchema")

---------------------------------------------------------------------------
(* Rule._build_globs *)

\* iter(rule): what `for rule_value in rule_values` walks, or TypeError
Iterate(rule) ==
    CASE IsList(rule) -> Return(rule[2])
      [] IsDict(rule) -> Return([i \in 1..Len(rule[2]) |-> PyStr(rule[2][i][1])])
      [] OTHER -> Raise("TypeError")

\* hash(v) succeeds: set.add raises TypeError on a list or a dict
Hashable(v) == ~IsList(v) /\ ~IsDict(v)

\* glob_set.add(rule_value) for each rule_value, in order
AddAll(glob_set, rule_values) ==
    IF \E i \in 1..Len(rule_values) : ~Hashable(rule_values[i])
    THEN Raise("TypeError")
    ELSE Return(glob_set \cup {rule_values[i] : i \in 1..Len(rule_values)})

\* the body of `for rule_type, rule in ...items()` for one item (lines 166-177)
GlobItem(globs, rule_type, rule) ==
    IF StartsWithDunder(rule_type)
    THEN Return(globs)
    ELSE IF rule_type \notin ALLOWED_GLOB_TYPES
    THEN Raise("InvalidRuleSchema")
    ELSE LET rule_values == IF IsStr(rule) THEN Return(<<rule>>) ELSE Iterate(rule) IN
         IF IsRaise(rule_values)
         THEN rule_values
         ELSE IF rule_type = "exclude"
         THEN LET added == AddAll(GlobsExclude(globs), rule_values[2]) IN
              IF IsRaise(added) THEN added ELSE Return(RuleGlobs(GlobsInclude(globs), added[2]))
         ELSE LET added == AddAll(GlobsInclude(globs), rule_values[2]) IN
              IF IsRaise(added) THEN added ELSE Return(RuleGlobs(added[2], GlobsExclude(globs)))

RECURSIVE GlobItems(_, _, _)
GlobItems(globs, items, i) ==
    IF i > Len(items)
    THEN Return(globs)
    ELSE LET first == GlobItem(globs, items[i][1], items[i][2]) IN
         IF IsRaise(first) THEN first ELSE GlobItems(first[2], items, i + 1)

_build_globs(rule_raw) ==
    LET paths_raw == Get(rule_raw, "paths", PyDict(<<>>)) IN
    IF ~IsDict(paths_raw)
    THEN Raise("InvalidRuleSchema")
    ELSE GlobItems(RuleGlobs({}, {}), paths_raw[2], 1)

---------------------------------------------------------------------------
(* Rule: the constructor and the accessors. self is <<"Rule", _raw, _expression, _globs>> *)

RuleObject(raw_, expression_, globs_) == <<"Rule", raw_, expression_, globs_>>
SelfRaw(self) == self[2]
SelfExpression(self) == self[3]
SelfGlobs(self) == self[4]

\* a constructor whose glob compilation pops `paths` off the document
NewRulePoppingPaths(raw_) ==
    LET built == _build_boolean_expression(raw_) IN
    IF IsRaise(built)
    THEN built
    ELSE LET compiled == _build_globs(raw_) IN
         IF IsRaise(compiled)
         THEN compiled
         ELSE Return(RuleObject(PyDict(SelectSeq(raw_[2], LAMBDA item : item[1] # "paths")),
                                built[2], compiled[2]))

\* Rule.__init__: the fields as the constructor leaves them, or what it raised
NewRule(raw_) ==
    LET built == _build_boolean_expression(raw_) IN
    IF IsRaise(built)
    THEN built
    ELSE LET compiled == _build_globs(raw_) IN
         IF IsRaise(compiled)
         THEN compiled
         ELSE Return(RuleObject(raw_, built[2], compiled[2]))

\* str(v)
Str(v) ==
    CASE IsStr(v) -> v
      [] v[1] = "int" -> PyStr(ToString(v[2]))
      [] OTHER -> PyStr(v[1])

\* the properties that read one key: str(self._raw[key])
StrField(self, key) ==
    LET v == Subscript(SelfRaw(self), key) IN
    IF IsRaise(v) THEN v ELSE Return(Str(v[2]))

id(self) == StrField(self, "id")
message(self) == StrField(self, "message")
severity(self) == StrField(self, "severity")
metadata(self) == Get(SelfRaw(self), "metadata", PyDict(<<>>))
languages(self) == Subscript(SelfRaw(self), "languages")
fix(self) == Get(SelfRaw(self), "fix", PyNone)
raw(self) == SelfRaw(self)
expression(self) == SelfExpression(self)
globs(self) == SelfGlobs(self)
to_json(self) == SelfRaw(self)

\* mapping = {"INFO": "note", "ERROR": "error", "WARNING": "warning"}
SarifLevels == PyDict(<< <<"INFO", PyStr("note")>>, <<"ERROR", PyStr("error")>>,
                        <<"WARNING", PyStr("warning")>> >>)

\* a severity lookup that falls back to "warning": mapping.get(severity, "warning")
SarifSeverityWithDefault(self) ==
    LET sev == severity(self) IN
    IF IsRaise(sev) THEN sev ELSE Return(Get(SarifLevels, sev[2][2], PyStr("warning")))

sarif_severity(self) ==
    LET sev == severity(self) IN
    IF IsRaise(sev) THEN sev ELSE Subscript(SarifLevels, sev[2][2])

\* list(self.sarif_tags)
sarif_tags(self) ==
    (IF HasKey(metadata(self), "cwe") THEN <<PyStr("cwe")>> ELSE <<>>)
    \o (IF HasKey(metadata(self), "owasp") THEN <<PyStr("owasp")>> ELSE <<>>)

to_sarif(self) ==
    LET i == id(self)
        m == message(self)
        level == sarif_severity(self)
    IN  IF IsRaise(i) THEN i
        ELSE IF IsRaise(m) THEN m
        ELSE IF IsRaise(level) THEN level
        ELSE Return(PyDict(<<
            <<"id", i[2]>>,
            <<"name", i[2]>>,
            <<"shortDescription", PyDict(<< <<"text", m[2]>> >>)>>,
            <<"fullDescription", PyDict(<< <<"text", m[2]>> >>)>>,
            <<"defaultConfiguration", PyDict(<< <<"level", level[2]>> >>)>>,
            <<"properties", PyDict(<< <<"precision", PyStr("very-high")>>,
                                      <<"tags", PyList(sarif_tags(self))>> >>)>> >>))

\* Equivalence(equivalence_id, pattern, languages)
Equivalence(equivalence_id, pattern, langs) == <<"Equivalence", equivalence_id, pattern, langs>>

equivalences(self) ==
    LET declared == Get(SelfRaw(self), "equivalences", PyList(<<>>))
        i_ == id(self)
        langs == languages(self)
    IN  IF declared[2] = <<>> THEN Return(PyList(<<>>))
        ELSE IF IsRaise(i_) THEN i_
        ELSE IF \E k \in 1..Len(declared[2]) : ~HasKey(declared[2][k], "equivalence")
        THEN Raise("KeyError")
        ELSE IF IsRaise(langs) THEN langs
        ELSE Return(PyList([k \in 1..Len(declared[2]) |->
                Equivalence(PyStr(i_[2][2] \o "-" \o ToString(k - 1)),
                            Get(declared[2][k], "equivalence", PyNone),
                            langs[2])]))

---------------------------------------------------------------------------
(* The documents a caller may pass: bounded families of rule documents *)

MaxNodes == 3
MaxGlobs == 2

Texts == {"a", "b"}
Names == {"pattern", "pattern-either"}

\* the key/value pairs a list element can hold, counted as n nodes: a string
\* under either name, a value that is neither string nor list, an empty list,
\* and (n > 1) a nested list of n - 1 nodes
RECURSIVE PatternLists(_)
PatternEntries(n) ==
    IF n = 1
    THEN {<<name, PyStr(t)>> : name \in Names, t \in Texts}
         \cup {<<"pattern", PyInt(7)>>, <<"pattern-either", PyList(<<>>)>>}
    ELSE {<<"pattern-either", PyList(l)>> : l \in PatternLists(n - 1)}

\* the elements of a pattern list: one-entry mappings, a mapping holding only an
\* annotation, and one value that is no mapping
PatternElements(n) ==
    {PyDict(<<entry>>) : entry \in PatternEntries(n)}
    \cup (IF n = 1 THEN {PyStr("a"), PyDict(<< <<"__span", PyInt(3)>> >>)} ELSE {})

\* the pattern lists of exactly n nodes
PatternLists(n) ==
    IF n = 0
    THEN {<<>>}
    ELSE UNION {{<<e>> \o rest : e \in PatternElements(k), rest \in PatternLists(n - k)} :
                k \in 1..n}

PatternListsUpTo(n) == UNION {PatternLists(k) : k \in 0..n}

\* the keys a document carries besides its pattern keys
BaseItems(rule_id) ==
    << <<"id", PyStr(rule_id)>>, <<"message", PyStr("msg")>>,
       <<"severity", PyStr("WARNING")>>, <<"languages", PyList(<<PyStr("python")>>)>> >>

\* `patterns` holding every pattern list of at most MaxNodes nodes
ExpressionDocuments ==
    {PyDict(BaseItems("rule-a") \o << <<"patterns", PyList(l)>> >>) :
        l \in PatternListsUpTo(MaxNodes)}

\* `patterns` holding two sibling nested lists
SiblingDocuments ==
    {PyDict(BaseItems("rule-a") \o
            << <<"patterns", PyList(<< PyDict(<< <<n1, PyList(l1)>> >>),
                                       PyDict(<< <<n2, PyList(l2)>> >>) >>)>> >>) :
        n1 \in Names, n2 \in Names, l1 \in PatternListsUpTo(1), l2 \in PatternListsUpTo(1)}

\* list elements with two entries: two operators, or an operator and an annotation
ElementItems ==
    {<<name, v>> : name \in Names,
                   v \in {PyStr(t) : t \in Texts} \cup {PyInt(7), PyList(<<>>)}
                         \cup {PyList(l) : l \in PatternLists(1)}}
    \cup {<<"__span", v>> : v \in {PyInt(3), PyStr("x")}}

TwoEntryElements ==
    {PyDict(<<pair[1], pair[2]>>) :
        pair \in {q \in ElementItems \X ElementItems : q[1][1] # q[2][1]}}

MappingDocuments ==
    {PyDict(BaseItems("rule-a") \o << <<"pattern-either", PyList(l)>> >>) :
        l \in UNION {{<<e>>, <<e, PyDict(<< <<"pattern", PyStr("a")>> >>)>>,
                      <<PyDict(<< <<"pattern", PyStr("b")>> >>), e>>} :
                     e \in TwoEntryElements}}

\* each top-level pattern key absent, falsy or truthy; `id` present or absent
Optional(key, values) == {<<>>} \cup {<< <<key, v>> >> : v \in values}

DispatchDocuments ==
    {PyDict(i \o << <<"message", PyStr("msg")>>, <<"severity", PyStr("ERROR")>>,
                    <<"languages", PyList(<<PyStr("python")>>)>> >> \o p \o r \o ps \o pe) :
        i \in Optional("id", {PyStr("rule-a"), PyStr("rule-b")}),
        p \in Optional("pattern", {PyStr(""), PyStr("p")}),
        r \in Optional("pattern-regex", {PyStr(""), PyStr("re")}),
        ps \in Optional("patterns", {PyList(<<>>), PyDict(<< <<"pattern", PyStr("a")>> >>),
                                     PyList(<< PyDict(<< <<"pattern", PyStr("a")>> >>) >>)}),
        pe \in Optional("pattern-either", {PyList(<<>>), PyInt(7),
                                           PyList(<< PyDict(<< <<"pattern", PyStr("b")>> >>) >>)})}

\* the `paths` mappings
Paths == {"tests", "*.js", "build/output"}

RECURSIVE PathLists(_)
PathLists(n) ==
    IF n = 0 THEN {<<>>} ELSE {<<PyStr(q)>> \o rest : q \in Paths, rest \in PathLists(n - 1)}

GoodGlobValues ==
    {PyStr(q) : q \in Paths} \cup {PyList(l) : l \in UNION {PathLists(n) : n \in 0..MaxGlobs}}

BadGlobValues ==
    {PyInt(5), PyNone, PyList(<<PyInt(5)>>), PyList(<<PyStr("tests"), PyList(<<>>)>>),
     PyDict(<< <<"tests", PyInt(1)>> >>)}

PathsValues ==
    {PyStr("tests"), PyList(<<PyStr("tests")>>), PyNone, PyDict(<<>>)}
    \cup {PyDict(<< <<k, v>> >>) :
            k \in {"include", "exclude", "includes", "__span"},
            v \in GoodGlobValues \cup BadGlobValues}
    \cup {PyDict(<< <<"include", v1>>, <<"exclude", v2>> >>) :
            v1 \in {PyStr("tests"), PyList(<<PyStr("*.js")>>), PyInt(5)},
            v2 \in GoodGlobValues \cup {PyNone}}
    \cup {PyDict(<< <<"exclude", v1>>, <<"__span", PyInt(3)>>, <<"include", v2>> >>) :
            v1 \in {PyStr("build/output")}, v2 \in GoodGlobValues}

GlobDocuments ==
    {PyDict(BaseItems("rule-a") \o << <<"pattern", PyStr("p")>>, <<"paths", v>> >>) :
        v \in PathsValues}
    \cup {PyDict(BaseItems("rule-a") \o << <<"patterns", ps>>, <<"paths", v>> >>) :
            ps \in {PyStr("p"), PyList(<< PyDict(<< <<"pattern", PyStr("a")>> >>) >>)},
            v \in {PyStr("tests"), PyDict(<< <<"include", PyInt(5)>> >>),
                   PyDict(<< <<"include", PyStr("tests")>> >>)}}

\* severity, metadata and equivalences, for the SARIF projection
SarifDocuments ==
    {PyDict(<< <<"id", PyStr("rule-a")>>, <<"message", PyStr("msg")>>,
               <<"languages", PyList(<<PyStr("python")>>)>>, <<"pattern", PyStr("p")>> >>
            \o sev \o md \o eq) :
        sev \in Optional("severity", {PyStr(x) : x \in {"INFO", "WARNING", "ERROR", "CRITICAL"}}),
        md \in Optional("metadata",
                        {PyDict(<<>>),
                         PyDict(<< <<"cwe", PyStr("CWE-89")>> >>),
                         PyDict(<< <<"owasp", PyStr("A1")>> >>),
                         PyDict(<< <<"cwe", PyStr("CWE-89")>>, <<"owasp", PyStr("A1")>> >>),
                         PyDict(<< <<"owasp", PyStr("A1")>>, <<"cwe", PyStr("CWE-89")>> >>),
                         PyDict(<< <<"category", PyStr("security")>> >>)}),
        eq \in Optional("equivalences",
                        {PyList(<<>>),
                         PyList(<< PyDict(<< <<"equivalence", PyStr("x == y")>> >>) >>),
                         PyList(<< PyDict(<< <<"equivalence", PyStr("x == y")>> >>),
                                   PyDict(<< <<"id", PyStr("e")>> >>) >>)})}

Documents ==
    ExpressionDocuments \cup SiblingDocuments \cup MappingDocuments
    \cup DispatchDocuments \cup GlobDocuments \cup SarifDocuments

---------------------------------------------------------------------------
(* The state machine: one action per call on the Rule *)

Init ==
    /\ document \in Documents
    /\ pc = "new"
    /\ _raw = PyNone
    /\ _expression = PyNone
    /\ _globs = PyNone
    /\ raised = "none"
    /\ called = "none"
    /\ returned = PyNone

Self == RuleObject(_raw, _expression, _globs)

\* rule = Rule(document)
Construct ==
    /\ pc = "new"
    /\ LET made == NewRule(document) IN
       IF IsRaise(made)
       THEN /\ pc' = "failed"
            /\ raised' = made[2]
            /\ UNCHANGED <<_raw, _expression, _globs>>
       ELSE /\ pc' = "built"
            /\ raised' = "none"
            /\ _raw' = SelfRaw(made[2])
            /\ _expression' = SelfExpression(made[2])
            /\ _globs' = SelfGlobs(made[2])
    /\ UNCHANGED <<document, called, returned>>

\* a call of an accessor that cannot raise
Answer(name, value) ==
    /\ pc = "built"
    /\ called' = name
    /\ returned' = value
    /\ raised' = "none"
    /\ UNCHANGED <<document, pc, _raw, _expression, _globs>>

\* a call of an accessor that may raise
Outcome(name, result) ==
    /\ pc = "built"
    /\ called' = name
    /\ returned' = IF IsRaise(result) THEN PyNone ELSE result[2]
    /\ raised' = IF IsRaise(result) THEN result[2] ELSE "none"
    /\ UNCHANGED <<document, pc, _raw, _expression, _globs>>

CallExpression == Answer("expression", expression(Self))
CallGlobs == Answer("globs", globs(Self))
CallRaw == Answer("raw", raw(Self))
CallToJson == Answer("to_json", to_json(Self))
CallToSarif == Outcome("to_sarif", to_sarif(Self))
CallEquivalences == Outcome("equivalences", equivalences(Self))

Next ==
    \/ Construct
    \/ CallExpression
    \/ CallGlobs
    \/ CallRaw
    \/ CallToJson
    \/ CallToSarif
    \/ CallEquivalences

Spec == Init /\ [][Next]_vars

---------------------------------------------------------------------------
(* Reading a compiled tree and a document, for the properties below *)

RECURSIVE Leaves(_)
RECURSIVE LeavesOfAll(_)

\* the leaves of a tree, depth first and left to right
Leaves(node) ==
    IF IsList(NodeChildren(node)) THEN LeavesOfAll(NodeChildren(node)[2]) ELSE <<node>>

LeavesOfAll(nodes) ==
    IF nodes = <<>> THEN <<>> ELSE Leaves(Head(nodes)) \o LeavesOfAll(Tail(nodes))

RECURSIVE AllNodes(_)

\* every node of a tree, the root included
AllNodes(node) ==
    {node} \cup
    (IF IsList(NodeChildren(node))
     THEN UNION {AllNodes(NodeChildren(node)[2][i]) : i \in 1..Len(NodeChildren(node)[2])}
     ELSE {})

\* the rule was compiled and its root is one of the two list families
CompositeBuilt == pc = "built" /\ NodeOperator(_expression) \in {"AND_ALL", "AND_EITHER"}

\* the pattern list the root of a composite rule was compiled from
RootPatterns == Get(document, pattern_names_for_operator(NodeOperator(_expression))[1], PyNone)

LeafIds == [i \in 1..Len(Leaves(_expression)) |-> NodePatternId(Leaves(_expression)[i])]
LeafTexts == [i \in 1..Len(Leaves(_expression)) |-> NodePatternText(Leaves(_expression)[i])]

\* the key/value pairs of the elements of a pattern list, in document order, the
\* annotation keys left out
RECURSIVE ProcessedEntries(_)
ProcessedEntries(elements) ==
    IF elements = <<>>
    THEN <<>>
    ELSE SelectSeq(Head(elements)[2], LAMBDA item : ~StartsWithDunder(item[1]))
         \o ProcessedEntries(Tail(elements))

\* the strings found transitively in a pattern list, in document order
RECURSIVE PatternStrings(_)
RECURSIVE PatternStringsFrom(_, _)
PatternStrings(rule_patterns) == PatternStringsFrom(ProcessedEntries(rule_patterns[2]), 1)

PatternStringsFrom(entries, k) ==
    IF k > Len(entries)
    THEN <<>>
    ELSE (IF IsList(entries[k][2]) THEN PatternStrings(entries[k][2]) ELSE <<entries[k][2]>>)
         \o PatternStringsFrom(entries, k + 1)

\* the identifiers a counter that advances once per key/value pair would assign:
\* the k-th pair of a level (counting from zero) gets prefix.k when it is a leaf,
\* and is recursed with prefix.k when it is a nested list
RECURSIVE ElementCountedIds(_, _)
RECURSIVE ElementCountedIdsFrom(_, _, _)
ElementCountedIds(rule_patterns, prefix) ==
    ElementCountedIdsFrom(ProcessedEntries(rule_patterns[2]), 1, prefix)

ElementCountedIdsFrom(entries, k, prefix) ==
    IF k > Len(entries)
    THEN <<>>
    ELSE (IF IsList(entries[k][2])
          THEN ElementCountedIds(entries[k][2], DottedId(prefix, k - 1))
          ELSE <<PyStr(DottedId(prefix, k - 1))>>)
         \o ElementCountedIdsFrom(entries, k + 1, prefix)

---------------------------------------------------------------------------
(* The properties *)

\* C1: in the compiled tree of a composite rule no two leaves share a pattern_id.
C1_LeafIdsPairwiseDistinct ==
    CompositeBuilt =>
        \A i \in DOMAIN LeafIds : \A j \in DOMAIN LeafIds : i # j => LeafIds[i] # LeafIds[j]

\* C9: within a nesting level the identifier counter advances once per element
\* processed, leaf or nested list, so the leaves carry the identifiers that such
\* a counter assigns, and sibling nested lists are recursed with different prefixes.
C9_CounterAdvancesPerElement ==
    CompositeBuilt => LeafIds = ElementCountedIds(RootPatterns, "")

\* C10: the leaf pattern_text values of a composite rule, read depth first and left
\* to right, are the strings of the input pattern lists in document order, none
\* reordered, dropped or merged.
C10_LeafTextsInDocumentOrder ==
    CompositeBuilt => LeafTexts = PatternStrings(RootPatterns)

\* a composite rule compiled from a nested list, with an annotation key skipped and
\* the same pattern text occurring twice
C10_Witness ==
    /\ CompositeBuilt
    /\ \E i \in DOMAIN LeafTexts : \E j \in DOMAIN LeafTexts : i < j /\ LeafTexts[i] = LeafTexts[j]
    /\ \E n \in AllNodes(_expression) : n # _expression /\ IsList(NodeChildren(n))
    /\ \E i \in 1..Len(RootPatterns[2]) : Get(RootPatterns[2][i], "__span", PyNone) = PyStr("x")
    /\ LeafTexts = PatternStrings(RootPatterns)

\* C3 as stated: every node of a compiled tree has a non-empty children sequence
\* or a pattern_text, and never both nor neither.
C3_NonEmptyChildrenOrText ==
    pc = "built" =>
        \A node \in AllNodes(_expression) :
            (IsList(NodeChildren(node)) /\ NodeChildren(node)[2] # <<>>)
                # (~IsNone(NodePatternText(node)))

\* C3, amended: every node of a compiled tree has either a children sequence
\* (which is empty when the list it was built from yields no node) or a
\* pattern_text, and never both nor neither.
C3_ChildrenOrText ==
    pc = "built" =>
        \A node \in AllNodes(_expression) :
            /\ IsList(NodeChildren(node)) # (~IsNone(NodePatternText(node)))
            /\ IsList(NodeChildren(node)) \/ IsNone(NodeChildren(node))

\* a compiled tree with leaves, and with a node built from an empty nested list
C3_Witness ==
    /\ CompositeBuilt
    /\ \E node \in AllNodes(_expression) :
            node # _expression /\ NodeChildren(node) = PyList(<<>>) /\ IsNone(NodePatternText(node))
    /\ \E node \in AllNodes(_expression) : IsStr(NodePatternText(node)) /\ IsNone(NodeChildren(node))

\* the families of the top level, in the order of precedence, and the key of each
FamilyOrder == <<"AND", "REGEX", "AND_ALL", "AND_EITHER">>
FamilyKey == <<"pattern", "pattern-regex", "patterns", "pattern-either">>

\* the positions in FamilyOrder of the families whose key holds a truthy value
TruthyFamilies(doc) == {k \in 1..4 : Truthy(Get(doc, FamilyKey[k], PyNone))}
FirstFamily(doc) == CHOOSE k \in TruthyFamilies(doc) : \A j \in TruthyFamilies(doc) : k <= j

\* the document without the keys of the families after the k-th
WithoutLaterFamilies(doc, k) ==
    PyDict(SelectSeq(doc[2], LAMBDA item : \A j \in (k + 1)..4 : item[1] # FamilyKey[j]))

\* C4: the root operator is the first family, in the order AND, REGEX, AND_ALL,
\* AND_EITHER, whose key holds a truthy value; the keys of later families change
\* nothing about the outcome; with no truthy family the compilation fails with
\* InvalidRuleSchema and no rule is produced.
C4_FirstTruthyFamilyWins ==
    /\ pc = "built" =>
         /\ TruthyFamilies(document) # {}
         /\ NodeOperator(_expression) = FamilyOrder[FirstFamily(document)]
         /\ Return(RuleObject(WithoutLaterFamilies(document, FirstFamily(document)),
                               _expression, _globs))
                = NewRule(WithoutLaterFamilies(document, FirstFamily(document)))
    /\ (pc = "failed" /\ TruthyFamilies(document) # {}) =>
         Raise(raised) = NewRule(WithoutLaterFamilies(document, FirstFamily(document)))
    /\ (pc # "new" /\ TruthyFamilies(document) = {}) =>
         /\ pc = "failed"
         /\ raised = "InvalidRuleSchema"
         /\ _expression = PyNone

\* a rule compiled from its `pattern-regex` although `pattern` is present (and
\* empty) and both list families are present and truthy
C4_Witness ==
    /\ pc = "built"
    /\ NodeOperator(_expression) = "REGEX"
    /\ HasKey(document, "pattern")
    /\ TruthyFamilies(document) = {2, 3, 4}

\* C5: a rule whose `pattern` or `pattern-regex` holds a truthy value compiles to
\* a single leaf: the operator of that family (AND when both are truthy), the
\* rule's own id as pattern_id, the key's value as pattern_text, and no children,
\* whatever `patterns` and `pattern-either` hold.
C5_SinglePatternIsOneLeaf ==
    (pc = "built" /\ TruthyFamilies(document) \cap {1, 2} # {}) =>
        /\ NodeOperator(_expression) = FamilyOrder[FirstFamily(document)]
        /\ Return(PyStr(NodePatternId(_expression)[2])) = id(Self)
        /\ NodePatternId(_expression) = Get(document, "id", PyNone)
        /\ NodePatternText(_expression) = Get(document, FamilyKey[FirstFamily(document)], PyNone)
        /\ NodeChildren(_expression) = PyNone
        /\ Leaves(_expression) = <<_expression>>

\* a single-pattern rule compiled while `patterns` holds a truthy list
C5_Witness ==
    /\ pc = "built"
    /\ called = "expression"
    /\ returned = BooleanRuleExpression("AND", PyStr("rule-b"), PyNone, PyStr("p"))
    /\ Truthy(Get(document, "patterns", PyNone))

\* the glob a path shorthand stands for, as the docstring of _build_globs gives it:
\* directory `tests` -> `tests/**`, filename `*.js` -> `**/*.js`, path kept as it is
HasSeparator(path) == path \in {"build/output"}
HasWildcard(path) == path \in {"*.js"}
Normalized(path) ==
    IF HasSeparator(path) THEN path
    ELSE IF HasWildcard(path) THEN "**/" \o path
    ELSE path \o "/**"

\* the strings the document holds under paths[rule_type]
PathStrings(doc, rule_type) ==
    LET rule == Get(Get(doc, "paths", PyDict(<<>>)), rule_type, PyList(<<>>)) IN
    IF IsStr(rule) THEN {rule[2]} ELSE {rule[2][i][2] : i \in 1..Len(rule[2])}

\* paths[rule_type] is absent, a string or a list of strings
WellFormedPathsEntry(doc, rule_type) ==
    LET rule == Get(Get(doc, "paths", PyDict(<<>>)), rule_type, PyList(<<>>)) IN
    IsStr(rule) \/ (IsList(rule) /\ \A i \in 1..Len(rule[2]) : IsStr(rule[2][i]))

\* C2: every string under `paths` is normalized before it is added to the include
\* set, or to the exclude set under the key `exclude`: a bare directory name n is
\* stored as n/**, a bare filename wildcard p as **/p, a path with a separator as
\* it is.
C2_GlobsAreNormalized ==
    (/\ pc = "built"
     /\ WellFormedPathsEntry(document, "include")
     /\ WellFormedPathsEntry(document, "exclude")) =>
        /\ GlobsInclude(_globs) = {PyStr(Normalized(q)) : q \in PathStrings(document, "include")}
        /\ GlobsExclude(_globs) = {PyStr(Normalized(q)) : q \in PathStrings(document, "exclude")}

\* paths[rule_type] is present and is neither a string nor a sequence of strings
MalformedPathsEntry(doc) ==
    /\ IsDict(Get(doc, "paths", PyDict(<<>>)))
    /\ \E rule_type \in ALLOWED_GLOB_TYPES : ~WellFormedPathsEntry(doc, rule_type)

\* C6: the compilation of a document (one that has its id) fails only with
\* InvalidRuleSchema, and it does fail when a `paths` entry is neither a string
\* nor a sequence of strings: no rule is compiled from such a document.
C6_EveryFailureIsSchemaError ==
    HasKey(document, "id") =>
        /\ pc = "failed" => raised = "InvalidRuleSchema"
        /\ pc = "built" => ~MalformedPathsEntry(document)

\* C7: the compiled rule holds the document it was given, and to_json and raw
\* return that document, key for key, after any sequence of accessor calls.
C7_RawIsTheDocument ==
    pc = "built" =>
        /\ _raw = document
        /\ raw(Self) = document
        /\ to_json(Self) = document
        /\ called \in {"raw", "to_json"} => returned = document

\* to_json called on a rule compiled from a document with `paths` and a list of
\* patterns
C7_Witness ==
    /\ pc = "built"
    /\ called = "to_json"
    /\ returned = document
    /\ Truthy(Get(document, "paths", PyNone))
    /\ Truthy(Get(document, "patterns", PyNone))

\* the SARIF level of each severity
SarifLevel(sev) ==
    CASE sev = PyStr("INFO") -> PyStr("note")
      [] sev = PyStr("WARNING") -> PyStr("warning")
      [] sev = PyStr("ERROR") -> PyStr("error")
      [] OTHER -> PyNone

\* C8: for a rule with an id and a message, to_sarif gives INFO the level "note", WARNING "warning" and ERROR "error",
\* fails for every other severity, and lists the tag "cwe" exactly when the
\* metadata has the key `cwe`, "owasp" exactly when it has `owasp`, and no other tag.
C8_SarifLevelAndTags ==
    (pc = "built" /\ called = "to_sarif" /\ HasKey(document, "id")) =>
        LET sev == Get(document, "severity", PyNone)
            md == Get(document, "metadata", PyDict(<<>>))
            tags == Get(Get(returned, "properties", PyDict(<<>>)), "tags", PyNone)
        IN  IF IsNone(SarifLevel(sev))
            THEN raised = "KeyError" /\ returned = PyNone
            ELSE /\ raised = "none"
                 /\ Get(Get(returned, "defaultConfiguration", PyDict(<<>>)), "level", PyNone)
                        = SarifLevel(sev)
                 /\ IsList(tags)
                 /\ \A t \in {"cwe", "owasp"} :
                        HasKey(md, t) <=> \E i \in 1..Len(tags[2]) : tags[2][i] = PyStr(t)
                 /\ \A i \in 1..Len(tags[2]) : tags[2][i] \in {PyStr("cwe"), PyStr("owasp")}
                 /\ Len(tags[2]) = Cardinality({t \in {"cwe", "owasp"} : HasKey(md, t)})

\* severity WARNING with metadata {cwe: "CWE-89"} projected to level "warning" and
\* tags ["cwe"]
C8_Witness ==
    /\ called = "to_sarif"
    /\ Get(document, "severity", PyNone) = PyStr("WARNING")
    /\ Get(document, "metadata", PyNone) = PyDict(<< <<"cwe", PyStr("CWE-89")>> >>)
    /\ Get(returned, "defaultConfiguration", PyNone) = PyDict(<< <<"level", PyStr("warning")>> >>)
    /\ Get(Get(returned, "properties", PyDict(<<>>)), "tags", PyNone) = PyList(<<PyStr("cwe")>>)

====
